---- MODULE Spec2Model ----
(***************************************************************************)
(* Assertion-driven backtracking of dspy/primitives/assertions.py.         *)
(*                                                                         *)
(* One behaviour is one call of a wrapped pipeline function `inner` under  *)
(* one of the four policies (assert_transform, assert_update_transform,    *)
(* assert_latest_transform, assert_latest_feedback_transform).  The        *)
(* pipeline function `func`, the predictors it runs and the trace the      *)
(* execution layer records are external: each invocation of func ends in   *)
(* one of the ways a Python call can end, with any trace.                  *)
(*                                                                         *)
(* Temperatures are counted in thousandths (0.7 is 700, 0.001 is 1).       *)
(***************************************************************************)
EXTENDS Integers, Sequences, FiniteSets, TLC

\* ---------------------------------------------------------------- bounds
MaxBacktracks == 2
MaxTraceLen == 2

\* ------------------------------------------------------- the environment
Stages == {"stageA", "stageB"}

Policies == {"assert_transform", "assert_update_transform",
             "assert_latest_transform", "assert_latest_feedback_transform"}

\* Python's None, and a local name that no assignment has bound yet.
None == "None"
Unbound == "Unbound"

\* msg= keyword values a pipeline passes to Assert.
Msgs == {"m1"}

\* What an assert_fun can return: the two bools, and values that are not bool.
PyBool == {"True", "False"}
PredicateReturns == PyBool \cup {"1", "0", "None"}

\* Values a pipeline function returns.
Values == {"r1", "r2"}

\* dsp.settings.trace: the stages of the (stage, inputs, outputs) entries.
RECURSIVE SeqsUpTo(_, _)
SeqsUpTo(S, n) ==
    IF n = 0 THEN {<<>>}
    ELSE LET shorter == SeqsUpTo(S, n - 1)
         IN  shorter \cup {Append(t, s) : t \in {u \in shorter : Len(u) = n - 1}, s \in S}

Traces == SeqsUpTo(Stages, MaxTraceLen)

\* A field of a dsp.Template: its keyword name, the class of its descriptor
\* and the descriptor's prefix.
Field(name, kind, prefix) == [name |-> name, kind |-> kind, prefix |-> prefix]

SimpleContract ==
    << Field("question", "InputField", "Question:"),
       Field("answer", "OutputField", "Answer:") >>

RichContract ==
    << Field("context", "InputField", "Context:"),
       Field("question", "InputField", "Question:"),
       Field("rationale", "Type", "Reasoning:"),
       Field("answer", "OutputField", "Answer:") >>

\* A signature that has an input field of its own under the name feedback.
OwnFeedbackContract ==
    << Field("question", "InputField", "Question:"),
       Field("feedback", "InputField", "Feedback:"),
       Field("answer", "OutputField", "Answer:") >>

\* A signature that has an output field under the name feedback.
FeedbackOutputContract ==
    << Field("question", "InputField", "Question:"),
       Field("feedback", "OutputField", "Feedback:") >>

\* The predictors' extended_signature.kwargs before the call.
InitContractMaps ==
    { [p \in Stages |-> IF p = "stageB" THEN RichContract ELSE SimpleContract],
      [p \in Stages |-> IF p = "stageA" THEN RichContract ELSE SimpleContract],
      [p \in Stages |-> IF p = "stageA" THEN OwnFeedbackContract
                        ELSE FeedbackOutputContract] }

\* The predictors' config dicts before the call, each as its set of
\* (key, value) items.
InitConfigMaps ==
    { [p \in Stages |-> IF p = "stageA" THEN {<<"temperature", 0>>, <<"n", 1>>} ELSE {}],
      [p \in Stages |-> IF p = "stageA" THEN {} ELSE {<<"temperature", 700>>}] }

\* Temperature of the language model in dsp.settings before the call.
InitLmTemperatures == {0, 700}

\* ------------------------------------------------------- exception types
\* The classes an exception of each type is an instance of.
Mro(type) ==
    CASE type = "DSPyAssertionError" ->
             {"DSPyAssertionError", "AssertionError", "Exception"}
      [] type = "AssertionError" -> {"AssertionError", "Exception"}
      [] type = "ValueError" -> {"ValueError", "Exception"}
      [] type = "UnboundLocalError" ->
             {"UnboundLocalError", "NameError", "Exception"}
      [] OTHER -> {type, "Exception"}

Exc(type, msg, state) == [type |-> type, msg |-> msg, state |-> state]
NoExc == Exc("none", "", <<>>)

\* ------------------------------------------------------------ class Assert
Assert_msg(kwargs_msg) == IF kwargs_msg # None THEN kwargs_msg ELSE ""

\* A __call__ that tests the truth value of the result instead of its type.
Assert_call_truthy(assert_fun_result, msg, settings_trace) ==
    IF assert_fun_result \in {"True", "1"}
    THEN NoExc
    ELSE Exc("DSPyAssertionError", msg, settings_trace)

\* Assert.__call__: NoExc when it returns True, else the exception raised.
Assert_call(assert_fun_result, msg, settings_trace) ==
    IF assert_fun_result \in PyBool
    THEN IF assert_fun_result = "True"
         THEN NoExc
         ELSE Exc("DSPyAssertionError", msg, settings_trace)
    ELSE Exc("ValueError", "Assertion function should always return [bool]", <<>>)

\* Assert.__init__ ends by calling __call__.
Assert_init(assert_fun_result, kwargs_msg, settings_trace) ==
    Assert_call(assert_fun_result, Assert_msg(kwargs_msg), settings_trace)

\* ---------------------------------------------------------------- state
VARIABLES
    policy,          \* which decorator wrapped func
    max_backtracks,  \* the decorator's argument
    pc,              \* "loop": at the head of the for loop; "call": inside func;
                     \* "done": inner has returned or raised
    i,               \* the for loop's index
    backtrack_to,    \* local of inner
    error_msg,       \* local of inner (feedback policy)
    result,          \* local of inner (feedback policy)
    extended_predictors_to_original_forward,  \* local dict of inner
    config,          \* predictor -> config items
    contract,        \* predictor -> extended_signature.kwargs, in dict order
    forward,         \* predictor -> the default feedback of each wrapper around
                     \* the original forward, innermost first
    settings_lm,     \* the stack of dsp.settings contexts: lm temperature of each
    trace,           \* dsp.settings.trace
    invocations,     \* how many times func has been invoked
    returned,        \* what inner returned, once pc = "done" without exception
    raised,          \* the exception that left inner, or NoExc
    failures,        \* how many func invocations raised DSPyAssertionError
    last_end,        \* how the latest func invocation ended
    blamed,          \* the stages a failure's trace has pointed at
    mutated,         \* the stages inner has written to
    reverts,         \* predictor -> how many times the revert loop restored it
    config0, contract0, lm0,  \* the values before the call
    perturbed,       \* the (attempt, temperature) of each temperature override
    pure_fun,        \* the function applied on its own: "Assert", "extend",
                     \* "revert", or "none" during a wrapped call
    pure_args,       \* its arguments
    pure_out         \* what each application so far produced, in order

vars == << policy, max_backtracks, pc, i, backtrack_to, error_msg, result,
           extended_predictors_to_original_forward, config, contract, forward,
           settings_lm, trace, invocations, returned, raised, failures, last_end,
           blamed, mutated, reverts, config0, contract0, lm0,
           perturbed, pure_fun, pure_args, pure_out >>

pure_vars == << pure_fun, pure_args, pure_out >>

\* The result of a func invocation carries the attempt that produced it.
Result(attempt, value) == [attempt |-> attempt, value |-> value]
NoResult == Result(0 - 1, None)

\* The end of func's invocation number `attempt`: the value it returned (None
\* when it raised) and the exception it raised (NoExc when it returned).
FuncEnd(attempt, value, e) == [attempt |-> attempt, value |-> value, e |-> e]

EmptyDict == [p \in {} |-> <<>>]

\* The state in which inner is entered.
InnerInit ==
    /\ policy \in Policies
    /\ max_backtracks \in 0..MaxBacktracks
    /\ pc = "loop"
    /\ i = 0
    /\ backtrack_to = IF policy = "assert_update_transform" THEN Unbound ELSE None
    /\ error_msg = None
    /\ result = NoResult
    /\ extended_predictors_to_original_forward = EmptyDict
    /\ config \in InitConfigMaps
    /\ contract \in InitContractMaps
    /\ forward = [p \in Stages |-> <<>>]
    /\ settings_lm \in {<<t>> : t \in InitLmTemperatures}
    /\ trace = <<>>
    /\ invocations = 0
    /\ returned = NoResult
    /\ raised = NoExc
    /\ failures = 0
    /\ last_end = FuncEnd(0 - 1, None, NoExc)
    /\ blamed = {}
    /\ mutated = {}
    /\ reverts = [p \in Stages |-> 0]
    /\ config0 = config
    /\ contract0 = contract
    /\ lm0 = settings_lm[1]
    /\ perturbed = {}

Init ==
    /\ InnerInit
    /\ pure_fun = "none"
    /\ pure_args = <<>>
    /\ pure_out = <<>>

\* ------------------------------------------------------ Python primitives
\* A loop that runs one attempt too many.
LoopRange_OneMore(mb) == 0..(mb + 1)

\* for i in range(max_backtracks + 1)
LoopRange(mb) == 0..mb

\* An except clause that names the base class AssertionError.
Caught_AssertionError(e) == "AssertionError" \in Mro(e.type)

\* except DSPyAssertionError as e
Caught(e) == "DSPyAssertionError" \in Mro(e.type)

\* if dsp.settings.trace:
HasTrace(settings_trace) == Len(settings_trace) > 0

\* dsp.settings.trace[-1][0]
LastStage(settings_trace) == settings_trace[Len(settings_trace)]

\* dict[key] = value on a dict kept as the sequence of its items' values, each
\* carrying its key as .name: a present key keeps its place, a new one is last.
DictSet(d, f) ==
    IF \E k \in 1..Len(d) : d[k].name = f.name
    THEN [k \in 1..Len(d) |-> IF d[k].name = f.name THEN f ELSE d[k]]
    ELSE Append(d, f)

\* dict.update(other), other's items in order
RECURSIVE DictUpdate(_, _)
DictUpdate(d, other) ==
    IF other = <<>> THEN d
    ELSE DictUpdate(DictSet(d, Head(other)), Tail(other))

\* A pop that removes the last item when the key is absent.
DictPop_OrLast(d, key) ==
    IF \E k \in 1..Len(d) : d[k].name = key
    THEN SelectSeq(d, LAMBDA f : f.name # key)
    ELSE SubSeq(d, 1, Len(d) - 1)

\* dict.pop(key, None)
DictPop(d, key) == SelectSeq(d, LAMBDA f : f.name # key)

\* Predict.update_config(**kwargs): the config dict with the key set.
UpdateConfig(cfg, key, value) ==
    {kv \in cfg : kv[1] # key} \cup {<<key, value>>}

\* ------------------------------------------------ what func can end with
\* The exceptions that can leave func when the trace is tr: a failed or
\* ill-typed Assert, or any other error of the pipeline.
FuncExceptions(tr) ==
    {Assert_init(r, m, tr) : r \in PredicateReturns \ {"True"}, m \in Msgs \cup {None}}
        \cup {Exc("AssertionError", "", <<>>), Exc("RuntimeError", "", <<>>)}

\* ------------------------------------------------------ assert_transform
assert_transform_invoke ==
    /\ policy = "assert_transform"
    /\ pc = "loop"
    /\ i \in LoopRange(max_backtracks)
    /\ pc' = "call"
    /\ invocations' = invocations + 1
    /\ UNCHANGED << policy, max_backtracks, i, backtrack_to, error_msg, result,
                    extended_predictors_to_original_forward, config, contract,
                    forward, settings_lm, trace, returned, raised, failures, last_end,
                    blamed, mutated, reverts, config0, contract0, lm0 >>
    /\ UNCHANGED << perturbed, pure_vars >>

\* func(*args, **kwargs) without the return: the value is dropped and the
\* loop goes on.
assert_transform_return_dropped ==
    /\ policy = "assert_transform"
    /\ pc = "call"
    /\ \E tr \in Traces, v \in Values :
          /\ trace' = tr
          /\ last_end' = FuncEnd(i, v, NoExc)
    /\ i' = i + 1
    /\ pc' = "loop"
    /\ UNCHANGED << failures, policy, max_backtracks, backtrack_to, error_msg, result,
                    extended_predictors_to_original_forward, config, contract,
                    forward, settings_lm, invocations, returned, raised,
                    blamed, mutated, reverts, config0, contract0, lm0 >>
    /\ UNCHANGED << perturbed, pure_vars >>

assert_transform_return ==
    /\ policy = "assert_transform"
    /\ pc = "call"
    /\ \E tr \in Traces, v \in Values :
          /\ trace' = tr
          /\ returned' = Result(i, v)
          /\ last_end' = FuncEnd(i, v, NoExc)
    /\ pc' = "done"
    /\ UNCHANGED << failures, policy, max_backtracks, i, backtrack_to, error_msg, result,
                    extended_predictors_to_original_forward, config, contract,
                    forward, settings_lm, invocations, raised,
                    blamed, mutated, reverts, config0, contract0, lm0 >>
    /\ UNCHANGED << perturbed, pure_vars >>

assert_transform_except ==
    /\ policy = "assert_transform"
    /\ pc = "call"
    /\ \E tr \in Traces : \E e \in FuncExceptions(tr) :
          /\ trace' = tr
          /\ last_end' = FuncEnd(i, None, e)
          /\ failures' = IF e.type = "DSPyAssertionError"
                         THEN failures + 1 ELSE failures
          /\ IF Caught(e)
             THEN /\ i' = i + 1
                  /\ pc' = "loop"
                  /\ blamed' = IF HasTrace(tr) THEN blamed \cup {LastStage(tr)} ELSE blamed
                  /\ UNCHANGED raised
             ELSE /\ raised' = e
                  /\ pc' = "done"
                  /\ UNCHANGED << i, blamed >>
    /\ UNCHANGED << policy, max_backtracks, backtrack_to, error_msg, result,
                    extended_predictors_to_original_forward, config, contract,
                    forward, settings_lm, invocations, returned,
                    mutated, reverts, config0, contract0, lm0 >>
    /\ UNCHANGED << perturbed, pure_vars >>

assert_transform_exhausted ==
    /\ policy = "assert_transform"
    /\ pc = "loop"
    /\ i \notin LoopRange(max_backtracks)
    /\ pc' = "done"
    /\ returned' = NoResult
    /\ UNCHANGED << policy, max_backtracks, i, backtrack_to, error_msg, result,
                    extended_predictors_to_original_forward, config, contract,
                    forward, settings_lm, trace, invocations, raised, failures, last_end,
                    blamed, mutated, reverts, config0, contract0, lm0 >>
    /\ UNCHANGED << perturbed, pure_vars >>

\* ----------------------------------------------- assert_update_transform
\* lm.copy(temperature=0.71 + 0.002 * i), in thousandths
UpdateTemperature(attempt) == 710 + 2 * attempt

\* A retry rule that perturbs whenever backtrack_to is set, attempt 0 included.
AttemptLm_FromAttemptZero(attempt, target, current) ==
    IF target # None THEN UpdateTemperature(attempt) ELSE current

\* Lines 83-89: the lm the settings context of attempt `attempt` is opened
\* with; new_settings is empty on attempt 0, which keeps the current lm.
AttemptLm(attempt, target, current) ==
    IF attempt > 0 /\ target # None THEN UpdateTemperature(attempt) ELSE current

\* Lines 83-92: open the attempt's settings context and call func.  Reading
\* backtrack_to before any assignment bound it raises UnboundLocalError.
assert_update_transform_invoke ==
    /\ policy = "assert_update_transform"
    /\ pc = "loop"
    /\ i \in LoopRange(max_backtracks)
    /\ IF i > 0 /\ backtrack_to = Unbound
       THEN /\ raised' = Exc("UnboundLocalError", "backtrack_to", <<>>)
            /\ pc' = "done"
            /\ UNCHANGED << settings_lm, invocations, perturbed >>
       ELSE /\ settings_lm' =
                   Append(settings_lm,
                          AttemptLm(i, backtrack_to, settings_lm[Len(settings_lm)]))
            /\ perturbed' = IF i > 0 /\ backtrack_to # None
                            THEN perturbed \cup {<<i, UpdateTemperature(i)>>}
                            ELSE perturbed
            /\ pc' = "call"
            /\ invocations' = invocations + 1
            /\ UNCHANGED raised
    /\ UNCHANGED << policy, max_backtracks, i, backtrack_to, error_msg, result,
                    extended_predictors_to_original_forward, config, contract,
                    forward, trace, returned, failures, last_end,
                    blamed, mutated, reverts, config0, contract0, lm0 >>
    /\ UNCHANGED pure_vars

\* Leaving `with dsp.settings.context(...)`, by return or by exception.
ContextExit(stack) == SubSeq(stack, 1, Len(stack) - 1)

assert_update_transform_return ==
    /\ policy = "assert_update_transform"
    /\ pc = "call"
    /\ \E tr \in Traces, v \in Values :
          /\ trace' = tr
          /\ returned' = Result(i, v)
          /\ last_end' = FuncEnd(i, v, NoExc)
    /\ settings_lm' = ContextExit(settings_lm)
    /\ pc' = "done"
    /\ UNCHANGED << failures, policy, max_backtracks, i, backtrack_to, error_msg, result,
                    extended_predictors_to_original_forward, config, contract,
                    forward, invocations, raised,
                    blamed, mutated, reverts, config0, contract0, lm0 >>
    /\ UNCHANGED << perturbed, pure_vars >>

assert_update_transform_except ==
    /\ policy = "assert_update_transform"
    /\ pc = "call"
    /\ settings_lm' = ContextExit(settings_lm)
    /\ \E tr \in Traces : \E e \in FuncExceptions(tr) :
          /\ trace' = tr
          /\ last_end' = FuncEnd(i, None, e)
          /\ failures' = IF e.type = "DSPyAssertionError"
                         THEN failures + 1 ELSE failures
          /\ IF Caught(e)
             THEN /\ backtrack_to' = IF HasTrace(tr) THEN LastStage(tr) ELSE backtrack_to
                  /\ blamed' = IF HasTrace(tr) THEN blamed \cup {LastStage(tr)} ELSE blamed
                  /\ i' = i + 1
                  /\ pc' = "loop"
                  /\ UNCHANGED raised
             ELSE /\ raised' = e
                  /\ pc' = "done"
                  /\ UNCHANGED << i, backtrack_to, blamed >>
    /\ UNCHANGED << policy, max_backtracks, error_msg, result,
                    extended_predictors_to_original_forward, config, contract,
                    forward, invocations, returned,
                    mutated, reverts, config0, contract0, lm0 >>
    /\ UNCHANGED << perturbed, pure_vars >>

assert_update_transform_exhausted ==
    /\ policy = "assert_update_transform"
    /\ pc = "loop"
    /\ i \notin LoopRange(max_backtracks)
    /\ pc' = "done"
    /\ returned' = NoResult
    /\ UNCHANGED << policy, max_backtracks, i, backtrack_to, error_msg, result,
                    extended_predictors_to_original_forward, config, contract,
                    forward, settings_lm, trace, invocations, raised, failures, last_end,
                    blamed, mutated, reverts, config0, contract0, lm0 >>
    /\ UNCHANGED << perturbed, pure_vars >>

\* ----------------------------------------------- assert_latest_transform
\* A perturbation that does not depend on the attempt.
LatestTemperature_Flat(attempt) == 700 + 1

\* backtrack_to.update_config(temperature=0.7 + 0.001 * i), in thousandths
LatestTemperature(attempt) == 700 + attempt

\* Lines 123-134: the config of every predictor once attempt `attempt` is
\* about to run.
LatestRewind(cfg, attempt, target) ==
    IF attempt > 0 /\ target # None
    THEN [cfg EXCEPT ![target] =
              UpdateConfig(cfg[target], "temperature", LatestTemperature(attempt))]
    ELSE cfg

assert_latest_transform_invoke ==
    /\ policy = "assert_latest_transform"
    /\ pc = "loop"
    /\ i \in LoopRange(max_backtracks)
    /\ config' = LatestRewind(config, i, backtrack_to)
    /\ mutated' = IF i > 0 /\ backtrack_to # None
                  THEN mutated \cup {backtrack_to} ELSE mutated
    /\ pc' = "call"
    /\ invocations' = invocations + 1
    /\ UNCHANGED << policy, max_backtracks, i, backtrack_to, error_msg, result,
                    extended_predictors_to_original_forward, contract,
                    forward, settings_lm, trace, returned, raised, failures, last_end,
                    blamed, reverts, config0, contract0, lm0 >>
    /\ perturbed' = IF i > 0 /\ backtrack_to # None
                    THEN perturbed \cup {<<i, LatestTemperature(i)>>}
                    ELSE perturbed
    /\ UNCHANGED pure_vars

assert_latest_transform_return ==
    /\ policy = "assert_latest_transform"
    /\ pc = "call"
    /\ \E tr \in Traces, v \in Values :
          /\ trace' = tr
          /\ returned' = Result(i, v)
          /\ last_end' = FuncEnd(i, v, NoExc)
    /\ pc' = "done"
    /\ UNCHANGED << failures, policy, max_backtracks, i, backtrack_to, error_msg, result,
                    extended_predictors_to_original_forward, config, contract,
                    forward, settings_lm, invocations, raised,
                    blamed, mutated, reverts, config0, contract0, lm0 >>
    /\ UNCHANGED << perturbed, pure_vars >>

\* Blame on the first entry of the trace instead of the last.
LatestBlame_First(settings_trace, target) ==
    IF HasTrace(settings_trace) THEN settings_trace[1] ELSE target

\* Lines 140-141: the predictor the next attempt rewinds to.
LatestBlame(settings_trace, target) ==
    IF HasTrace(settings_trace) THEN LastStage(settings_trace) ELSE target

assert_latest_transform_except ==
    /\ policy = "assert_latest_transform"
    /\ pc = "call"
    /\ \E tr \in Traces : \E e \in FuncExceptions(tr) :
          /\ trace' = tr
          /\ last_end' = FuncEnd(i, None, e)
          /\ failures' = IF e.type = "DSPyAssertionError"
                         THEN failures + 1 ELSE failures
          /\ IF Caught(e)
             THEN /\ backtrack_to' = LatestBlame(tr, backtrack_to)
                  /\ blamed' = IF HasTrace(tr) THEN blamed \cup {LastStage(tr)} ELSE blamed
                  /\ i' = i + 1
                  /\ pc' = "loop"
                  /\ UNCHANGED raised
             ELSE /\ raised' = e
                  /\ pc' = "done"
                  /\ UNCHANGED << i, backtrack_to, blamed >>
    /\ UNCHANGED << policy, max_backtracks, error_msg, result,
                    extended_predictors_to_original_forward, config, contract,
                    forward, settings_lm, invocations, returned,
                    mutated, reverts, config0, contract0, lm0 >>
    /\ UNCHANGED << perturbed, pure_vars >>

assert_latest_transform_exhausted ==
    /\ policy = "assert_latest_transform"
    /\ pc = "loop"
    /\ i \notin LoopRange(max_backtracks)
    /\ pc' = "done"
    /\ returned' = NoResult
    /\ UNCHANGED << policy, max_backtracks, i, backtrack_to, error_msg, result,
                    extended_predictors_to_original_forward, config, contract,
                    forward, settings_lm, trace, invocations, raised, failures, last_end,
                    blamed, mutated, reverts, config0, contract0, lm0 >>
    /\ UNCHANGED << perturbed, pure_vars >>

\* -------------------------------------- assert_latest_feedback_transform
\* dspy.InputField(prefix="Instruction:", desc="Some instructions you must satisfy")
FeedbackField == Field("feedback", "InputField", "Instruction:")

\* isinstance(v, dspy.InputField)
IsInputField(f) == f.kind = "InputField"

\* isinstance(v, (dsp.Type, dspy.OutputField))
IsTypeOrOutputField(f) == f.kind \in {"Type", "OutputField"}

\* _extend_predictor_signature: the new signature's kwargs, from the old
\* signature's kwargs and the keyword fields to add.
extend_predictor_signature(old_signature_kwargs, kwargs) ==
    DictUpdate(DictUpdate(SelectSeq(old_signature_kwargs, IsInputField), kwargs),
               SelectSeq(old_signature_kwargs, IsTypeOrOutputField))

\* _revert_predictor_signature: the kwargs with each key of args popped.
RECURSIVE revert_predictor_signature(_, _)
revert_predictor_signature(old_signature_kwargs, args) ==
    IF args = <<>> THEN old_signature_kwargs
    ELSE revert_predictor_signature(DictPop(old_signature_kwargs, Head(args)), Tail(args))

\* A wrapper that is put under the wrappers already there, so that an older
\* default is applied first.
wrap_forward_innermost(original_forward, default_feedback) ==
    <<default_feedback>> \o original_forward

\* _wrap_forward_with_set_fields: new_forward closes over the predictor's
\* current forward and over default_args["feedback"].
wrap_forward_with_set_fields(original_forward, default_feedback) ==
    Append(original_forward, default_feedback)

\* A keyword argument the caller did not pass.
Missing == "Missing"

\* new_forward(**kwargs), lines 204-208: the feedback keyword the predictor's
\* original forward receives when predictor.forward is called with
\* kwargs_feedback (Missing when not passed).  Each wrapper, outermost first,
\* does kwargs.setdefault("feedback", its default) and calls the one below.
RECURSIVE new_forward(_, _)
new_forward(fwd, kwargs_feedback) ==
    IF fwd = <<>> THEN kwargs_feedback
    ELSE new_forward(SubSeq(fwd, 1, Len(fwd) - 1),
                     IF kwargs_feedback = Missing THEN fwd[Len(fwd)]
                     ELSE kwargs_feedback)

\* extended_predictors_to_original_forward[backtrack_to] = backtrack_to.forward
RecordForward(dict, predictor, fwd) ==
    [p \in DOMAIN dict \cup {predictor} |-> IF p = predictor THEN fwd ELSE dict[p]]

\* Lines 213-232.
Rewinds == i > 0 /\ backtrack_to # None

assert_latest_feedback_transform_invoke ==
    /\ policy = "assert_latest_feedback_transform"
    /\ pc = "loop"
    /\ i \in LoopRange(max_backtracks)
    /\ IF Rewinds
       THEN /\ extended_predictors_to_original_forward' =
                   RecordForward(extended_predictors_to_original_forward,
                                 backtrack_to, forward[backtrack_to])
            /\ contract' = [contract EXCEPT ![backtrack_to] =
                   extend_predictor_signature(@, <<FeedbackField>>)]
            /\ forward' = [forward EXCEPT ![backtrack_to] =
                   wrap_forward_with_set_fields(@, error_msg)]
            /\ mutated' = mutated \cup {backtrack_to}
       ELSE UNCHANGED << extended_predictors_to_original_forward, contract,
                         forward, mutated >>
    /\ pc' = "call"
    /\ invocations' = invocations + 1
    /\ UNCHANGED << policy, max_backtracks, i, backtrack_to, error_msg, result,
                    config, settings_lm, trace, returned, raised, failures, last_end,
                    blamed, reverts, config0, contract0, lm0 >>
    /\ UNCHANGED << perturbed, pure_vars >>

\* Lines 235-236: result = func(...); break
assert_latest_feedback_transform_return ==
    /\ policy = "assert_latest_feedback_transform"
    /\ pc = "call"
    /\ \E tr \in Traces, v \in Values :
          /\ trace' = tr
          /\ result' = Result(i, v)
          /\ last_end' = FuncEnd(i, v, NoExc)
    /\ pc' = "revert"
    /\ UNCHANGED << failures, policy, max_backtracks, i, backtrack_to, error_msg,
                    extended_predictors_to_original_forward, config, contract,
                    forward, settings_lm, invocations, returned, raised,
                    blamed, mutated, reverts, config0, contract0, lm0 >>
    /\ UNCHANGED << perturbed, pure_vars >>

\* Lines 237-246, and an exception the except clause does not name.
assert_latest_feedback_transform_except ==
    /\ policy = "assert_latest_feedback_transform"
    /\ pc = "call"
    /\ \E tr \in Traces : \E e \in FuncExceptions(tr) :
          /\ trace' = tr
          /\ last_end' = FuncEnd(i, None, e)
          /\ failures' = IF e.type = "DSPyAssertionError"
                         THEN failures + 1 ELSE failures
          /\ IF Caught(e)
             THEN /\ error_msg' = e.msg
                  /\ backtrack_to' = IF HasTrace(tr) THEN LastStage(tr) ELSE backtrack_to
                  /\ blamed' = IF HasTrace(tr) THEN blamed \cup {LastStage(tr)} ELSE blamed
                  /\ i' = i + 1
                  /\ pc' = "loop"
                  /\ UNCHANGED raised
             ELSE /\ raised' = e
                  /\ pc' = "done"
                  /\ UNCHANGED << i, backtrack_to, error_msg, blamed >>
    /\ UNCHANGED << policy, max_backtracks, result,
                    extended_predictors_to_original_forward, config, contract,
                    forward, settings_lm, invocations, returned,
                    mutated, reverts, config0, contract0, lm0 >>
    /\ UNCHANGED << perturbed, pure_vars >>

\* The for loop ran out of attempts.
assert_latest_feedback_transform_exhausted ==
    /\ policy = "assert_latest_feedback_transform"
    /\ pc = "loop"
    /\ i \notin LoopRange(max_backtracks)
    /\ pc' = "revert"
    /\ UNCHANGED << policy, max_backtracks, i, backtrack_to, error_msg, result,
                    extended_predictors_to_original_forward, config, contract,
                    forward, settings_lm, trace, invocations, returned, raised,
                    failures, last_end, blamed, mutated, reverts, config0, contract0, lm0 >>
    /\ UNCHANGED << perturbed, pure_vars >>

\* Lines 248-258: the revert loop over the dict's items, then return result.
assert_latest_feedback_transform_revert ==
    /\ policy = "assert_latest_feedback_transform"
    /\ pc = "revert"
    /\ LET dict == extended_predictors_to_original_forward
       IN  /\ contract' = [p \in Stages |->
                  IF p \in DOMAIN dict
                  THEN revert_predictor_signature(contract[p], <<"feedback">>)
                  ELSE contract[p]]
           /\ forward' = [p \in Stages |->
                  IF p \in DOMAIN dict THEN dict[p] ELSE forward[p]]
           /\ reverts' = [p \in Stages |->
                  IF p \in DOMAIN dict THEN reverts[p] + 1 ELSE reverts[p]]
    /\ returned' = result
    /\ pc' = "done"
    /\ UNCHANGED << policy, max_backtracks, i, backtrack_to, error_msg, result,
                    extended_predictors_to_original_forward, config,
                    settings_lm, trace, invocations, raised, failures, last_end,
                    blamed, mutated, config0, contract0, lm0 >>
    /\ UNCHANGED << perturbed, pure_vars >>

Next ==
    \/ assert_transform_invoke
    \/ assert_transform_return
    \/ assert_transform_except
    \/ assert_transform_exhausted
    \/ assert_update_transform_invoke
    \/ assert_update_transform_return
    \/ assert_update_transform_except
    \/ assert_update_transform_exhausted
    \/ assert_latest_transform_invoke
    \/ assert_latest_transform_return
    \/ assert_latest_transform_except
    \/ assert_latest_transform_exhausted
    \/ assert_latest_feedback_transform_invoke
    \/ assert_latest_feedback_transform_return
    \/ assert_latest_feedback_transform_except
    \/ assert_latest_feedback_transform_exhausted
    \/ assert_latest_feedback_transform_revert

Spec == Init /\ [][Next]_vars

\* ---------------------------------------- the functions applied on their own
\* Field names and descriptor classes of the signatures tried.
FieldNames == {"question", "answer", "feedback"}
FieldKinds == {"InputField", "OutputField", "Type"}

PrefixOf(name) ==
    CASE name = "question" -> "Question:"
      [] name = "answer" -> "Answer:"
      [] OTHER -> "Feedback:"

\* Every kwargs dict over these names: keys are distinct, any order, any class.
PureContracts ==
    {c \in SeqsUpTo({Field(n, k, PrefixOf(n)) : n \in FieldNames, k \in FieldKinds},
                    Cardinality(FieldNames)) :
        \A a, b \in 1..Len(c) : a # b => c[a].name # c[b].name}

PureInit ==
    /\ InnerInit
    /\ policy = "assert_transform"
    /\ max_backtracks = 0
    /\ config = CHOOSE c \in InitConfigMaps : TRUE
    /\ contract = CHOOSE c \in InitContractMaps : TRUE
    /\ settings_lm = <<0>>
    /\ pure_out = <<>>
    /\ \/ /\ pure_fun = "Assert"
          /\ pure_args \in [assert_fun_result : PredicateReturns,
                            kwargs_msg : Msgs \cup {None},
                            settings_trace : Traces]
       \/ /\ pure_fun = "extend"
          /\ pure_args \in [kwargs : PureContracts]
       \/ /\ pure_fun = "revert"
          /\ pure_args \in [kwargs : PureContracts, key : FieldNames]

inner_vars == << policy, max_backtracks, pc, i, backtrack_to, error_msg, result,
                 extended_predictors_to_original_forward, config, contract, forward,
                 settings_lm, trace, invocations, returned, raised, failures,
                 last_end, blamed, mutated, reverts, config0, contract0, lm0,
                 perturbed >>

\* Assert(assert_fun, ..., msg=...): __init__ calls __call__ once (line 32),
\* which evaluates assert_fun once (line 36).
Assert_construct ==
    /\ pure_fun = "Assert"
    /\ pure_out = <<>>
    /\ pure_out' = << [e |-> Assert_init(pure_args.assert_fun_result,
                                         pure_args.kwargs_msg,
                                         pure_args.settings_trace),
                       evaluations |-> 1] >>
    /\ UNCHANGED << inner_vars, pure_fun, pure_args >>

\* _extend_predictor_signature(predictor, feedback=feedback)
extend_apply ==
    /\ pure_fun = "extend"
    /\ pure_out = <<>>
    /\ pure_out' = << extend_predictor_signature(pure_args.kwargs, <<FeedbackField>>) >>
    /\ UNCHANGED << inner_vars, pure_fun, pure_args >>

\* _revert_predictor_signature(predictor, key), on the predictor as is and then
\* once more on what the first call left.
revert_apply ==
    /\ pure_fun = "revert"
    /\ Len(pure_out) < 2
    /\ LET kwargs == IF pure_out = <<>> THEN pure_args.kwargs
                     ELSE pure_out[Len(pure_out)]
       IN  pure_out' = Append(pure_out,
                              revert_predictor_signature(kwargs, <<pure_args.key>>))
    /\ UNCHANGED << inner_vars, pure_fun, pure_args >>

PureNext ==
    \/ Assert_construct
    \/ extend_apply
    \/ revert_apply

PureSpec == PureInit /\ [][PureNext]_vars

\* ------------------------------------------------------------ properties
Feedback == policy = "assert_latest_feedback_transform"
Latest == policy = "assert_latest_transform"
Update == policy = "assert_update_transform"
Blind == policy = "assert_transform"

\* The predictor's forward is the one it had before the call: no wrapper.
OriginalForward(p) == forward[p] = <<>>

\* The predictor's signature and forward are those of before the call.
Restored(p) == contract[p] = contract0[p] /\ OriginalForward(p)

\* inner has returned to its caller (it did not raise).
InnerReturned == pc = "done" /\ raised = NoExc

\* The latest func invocation returned a value.
FuncReturned == last_end.attempt >= 0 /\ last_end.e = NoExc

\* Every func invocation so far raised DSPyAssertionError.
AllFailed == invocations > 0 /\ failures = invocations

\* C1: under assert_latest_feedback_transform, when the wrapped call returns
\* (success or exhaustion), every stage blamed during the call has the
\* signature fields and the forward it had before the call.
C1_BlamedRestoredOnReturn ==
    (Feedback /\ InnerReturned) => \A p \in blamed : Restored(p)

\* C2: under assert_latest_feedback_transform, when a non-assertion exception
\* leaves the wrapped call, every stage mutated during the call has the
\* signature fields and the forward it had before the call.
C2_MutatedRestoredOnError ==
    (Feedback /\ pc = "done" /\ raised # NoExc) => \A p \in mutated : Restored(p)

\* C3: under each policy func is invoked at most max_backtracks + 1 times, the
\* invocation in progress is attempt i and the (i+1)-th one, no invocation
\* follows one that returned, and inner returns that invocation's result.
C3_AttemptsBoundedAndResultReturned ==
    /\ invocations <= max_backtracks + 1
    /\ pc = "call" => (i \in 0..max_backtracks /\ invocations = i + 1)
    /\ FuncReturned =>
          /\ pc \in {"revert", "done"}
          /\ invocations = last_end.attempt + 1
          /\ pc = "done" =>
                (raised = NoExc /\ returned = Result(last_end.attempt, last_end.value))

C3_Witness ==
    /\ InnerReturned
    /\ max_backtracks = 2
    /\ failures = 2
    /\ invocations = 3
    /\ returned = Result(2, "r1")

\* C4: under each policy, when every attempt raised DSPyAssertionError the
\* wrapped call ends after exactly max_backtracks + 1 invocations, raises
\* nothing and returns None, whatever the traces were.
C4_ExhaustionReturnsNone ==
    (pc = "done" /\ AllFailed) =>
        (invocations = max_backtracks + 1 /\ raised = NoExc /\ returned = NoResult)

\* C5: under assert_latest_transform, the step that starts attempt i >= 1
\* after a failure with a non-empty trace leaves the stage of the last trace
\* entry with temperature 700 + i (0.7 + 0.001*i) and changes the config of
\* no other stage.
C5_LastEntryPerturbedOnly ==
    [][ (Latest /\ pc = "loop" /\ pc' = "call" /\ i >= 1 /\ HasTrace(trace)) =>
            /\ {kv \in config'[LastStage(trace)] : kv[1] = "temperature"}
                  = {<<"temperature", 700 + i>>}
            /\ \A p \in Stages \ {LastStage(trace)} : config'[p] = config[p] ]_vars

C5_Witness ==
    /\ Latest
    /\ pc = "call"
    /\ i = 2
    /\ trace = <<"stageB", "stageA">>
    /\ <<"temperature", 702>> \in config["stageA"]
    /\ config["stageB"] = config0["stageB"]

\* C6: under assert_latest_transform, the step that starts attempt i >= 1
\* after a failure with an empty trace changes no stage's config, whatever
\* happened on earlier attempts.
C6_EmptyTraceBlindRetry ==
    [][ (Latest /\ pc = "loop" /\ pc' = "call" /\ i >= 1 /\ ~HasTrace(trace)) =>
            config' = config ]_vars

\* C7: under assert_update_transform, attempt 0 runs with the lm of before
\* the call, every failed attempt that is not the last one is followed by the
\* next attempt, and attempt i >= 1 runs with lm temperature 710 + 2*i
\* (0.71 + 0.002*i), whatever the trace at the failure was.
C7_EveryRetryPerturbed ==
    Update =>
        /\ (pc = "call" /\ i = 0) => settings_lm[Len(settings_lm)] = lm0
        /\ (pc = "call" /\ i >= 1) => settings_lm[Len(settings_lm)] = 710 + 2 * i
        /\ (pc = "done" /\ AllFailed) => invocations = max_backtracks + 1

\* C8: under each policy, an exception of func that is not a
\* DSPyAssertionError leaves the wrapped call from the attempt that raised it:
\* no later invocation, and no return value in its place.
C8_OtherExceptionsPropagate ==
    (last_end.attempt >= 0 /\ last_end.e.type \notin {"none", "DSPyAssertionError"}) =>
        /\ pc = "done"
        /\ raised = last_end.e
        /\ returned = NoResult
        /\ invocations = last_end.attempt + 1

C8_Witness ==
    /\ pc = "done"
    /\ raised.type = "ValueError"
    /\ last_end.attempt = 1
    /\ failures = 1
    /\ invocations = 2

\* C9: under assert_transform, a func that fails on attempts 0..k-1 and
\* completes on attempt k <= max_backtracks yields the attempt-k result after
\* exactly k+1 invocations, and in every state no stage's config, signature or
\* forward and no setting differs from before the call.
C9_BlindRetryTouchesNothing ==
    Blind =>
        /\ config = config0
        /\ contract = contract0
        /\ \A p \in Stages : OriginalForward(p)
        /\ settings_lm = <<lm0>>
        /\ FuncReturned =>
              /\ InnerReturned
              /\ last_end.attempt <= max_backtracks
              /\ failures = last_end.attempt
              /\ invocations = last_end.attempt + 1
              /\ returned = Result(last_end.attempt, last_end.value)

C9_Witness ==
    /\ Blind
    /\ InnerReturned
    /\ max_backtracks = 2
    /\ failures = 2
    /\ invocations = 3
    /\ returned = Result(2, "r2")
    /\ blamed = Stages

\* C10: under assert_latest_transform, when the wrapped call returns, every
\* stage whose config temperature was overridden during the call has the
\* config it had before the call.
C10_ConfigRestoredOnReturn ==
    (Latest /\ InnerReturned) => \A p \in mutated : config[p] = config0[p]

\* Values a caller passes as feedback= to a predictor's forward.
CallerFeedbacks == {None, "", "caller"}

\* C11: under assert_latest_feedback_transform, while attempt i >= 1 runs and
\* a stage is blamed, calling that stage's forward without feedback hands the
\* original forward the message of the failure of attempt i-1, however many
\* wrappers the stage has, and a feedback the caller passes arrives unchanged.
C11_NewestFeedbackIsDefault ==
    (Feedback /\ pc = "call" /\ i >= 1 /\ backtrack_to # None) =>
        /\ last_end.attempt = i - 1
        /\ last_end.e.type = "DSPyAssertionError"
        /\ new_forward(forward[backtrack_to], Missing) = last_end.e.msg
        /\ \A v \in CallerFeedbacks : new_forward(forward[backtrack_to], v) = v

C11_Witness ==
    /\ Feedback
    /\ pc = "call"
    /\ i = 2
    /\ backtrack_to = "stageA"
    /\ forward["stageA"] = <<"m1", "">>
    /\ last_end.e.msg = ""

\* C12: constructing an Assert evaluates assert_fun once; True raises nothing,
\* False raises DSPyAssertionError with the supplied msg ("" when none) and the
\* trace of that moment, and any non-bool value raises ValueError, which is no
\* DSPyAssertionError.
C12_AssertOutcomeByResult ==
    (pure_fun = "Assert" /\ pure_out # <<>>) =>
        LET r == pure_args.assert_fun_result
            out == pure_out[1]
        IN  /\ out.evaluations = 1
            /\ r = "True" => out.e = NoExc
            /\ r = "False" =>
                  /\ out.e.type = "DSPyAssertionError"
                  /\ out.e.msg = (IF pure_args.kwargs_msg = None THEN ""
                                  ELSE pure_args.kwargs_msg)
                  /\ out.e.state = pure_args.settings_trace
            /\ r \notin {"True", "False"} =>
                  /\ out.e.type = "ValueError"
                  /\ "DSPyAssertionError" \notin Mro(out.e.type)

C12_Witness ==
    /\ pure_fun = "Assert"
    /\ pure_out # <<>>
    /\ pure_args.assert_fun_result = "False"
    /\ pure_args.kwargs_msg = None
    /\ pure_args.settings_trace = <<"stageA", "stageB">>
    /\ pure_out[1].e = Exc("DSPyAssertionError", "", <<"stageA", "stageB">>)

\* C13: reverting a field twice leaves the same signature fields, in the same
\* order, as reverting it once, and reverting an absent field leaves the
\* fields as they were.
C13_RevertIdempotent ==
    (pure_fun = "revert" /\ pure_out # <<>>) =>
        /\ Len(pure_out) = 2 => pure_out[2] = pure_out[1]
        /\ (\A k \in 1..Len(pure_args.kwargs) : pure_args.kwargs[k].name # pure_args.key)
              => pure_out[1] = pure_args.kwargs

C13_Witness ==
    /\ pure_fun = "revert"
    /\ Len(pure_out) = 2
    /\ pure_args.key = "feedback"
    /\ Len(pure_args.kwargs) = 3
    /\ pure_args.kwargs[2].name = "feedback"
    /\ Len(pure_out[2]) = 2

\* The extended signature `new` has the new field at one place, the old input
\* fields before it, the old output fields (dsp.Type counts as output) after
\* it, and without the new field it is `old`, in order.
ExtendedInPlace(old, new) ==
    \E k \in 1..Len(new) :
        /\ new[k] = FeedbackField
        /\ \A j \in 1..(k - 1) : new[j].kind = "InputField"
        /\ \A j \in (k + 1)..Len(new) : new[j].kind \in {"OutputField", "Type"}
        /\ SubSeq(new, 1, k - 1) \o SubSeq(new, k + 1, Len(new)) = old

\* Every input field of the signature comes before every output field.
InputsFirst(c) ==
    \A a, b \in 1..Len(c) :
        (c[a].kind = "InputField" /\ c[b].kind # "InputField") => a < b

HasFieldNamed(c, name) == \E k \in 1..Len(c) : c[k].name = name

\* C15: for every signature made of input and output fields, extend puts the
\* feedback field after every old input field and before every output field,
\* and keeps the old fields in their order.
C15_ExtendInPlaceAlways ==
    (pure_fun = "extend" /\ pure_out # <<>>) =>
        ExtendedInPlace(pure_args.kwargs, pure_out[1])

\* What does hold of extend: the same, for the signatures that in addition
\* have no field named feedback.
ExtendInPlaceWithoutOwnFeedback ==
    (/\ pure_fun = "extend"
     /\ pure_out # <<>>
     /\ InputsFirst(pure_args.kwargs)
     /\ ~HasFieldNamed(pure_args.kwargs, "feedback")) =>
        ExtendedInPlace(pure_args.kwargs, pure_out[1])

\* The keys of a signature's kwargs, in dict order.
Names(c) == [k \in 1..Len(c) |-> c[k].name]

\* C14: under assert_latest_feedback_transform, once the wrapped call is over
\* every stage mutated during it has been restored exactly once, whichever
\* attempt succeeded or none, and no stage is restored while the loop runs.
C14_RestoredExactlyOnce ==
    Feedback =>
        /\ pc \in {"loop", "call", "revert"} => \A p \in Stages : reverts[p] = 0
        /\ pc = "done" =>
              \A p \in Stages : reverts[p] = (IF p \in mutated THEN 1 ELSE 0)

\* C16: under assert_latest_feedback_transform, a stage's signature never has
\* two fields named feedback, and once the cleanup loop has run every stage's
\* signature has the field names of before the call, in the same order.
C16_OneFeedbackFieldAndNamesRestored ==
    Feedback =>
        /\ \A p \in Stages :
              Cardinality({k \in 1..Len(contract[p]) :
                              contract[p][k].name = "feedback"}) <= 1
        /\ (pc = "done" /\ raised = NoExc) =>
              \A p \in Stages : Names(contract[p]) = Names(contract0[p])

\* The stages whose signature has the injected feedback field.
CarryFeedbackField ==
    {p \in Stages : \E k \in 1..Len(contract[p]) : contract[p][k] = FeedbackField}

\* The stages whose forward is a new_forward wrapper.
Wrapped == {p \in Stages : ~OriginalForward(p)}

\* C17: under assert_latest_feedback_transform, until the cleanup loop starts
\* the stages with the feedback field, the stages with a wrapped forward and
\* the keys of the rollback dict are the same set, and nothing has been
\* reverted.
C17_MutatedAreTheRollbackKeys ==
    (Feedback /\ pc \in {"loop", "call", "revert"}) =>
        /\ CarryFeedbackField = DOMAIN extended_predictors_to_original_forward
        /\ Wrapped = DOMAIN extended_predictors_to_original_forward
        /\ \A p \in Stages : reverts[p] = 0

\* What does hold: the wrapped stages are the keys of the rollback dict and
\* nothing is reverted before the cleanup loop.
WrappedAreTheRollbackKeys ==
    (Feedback /\ pc \in {"loop", "call", "revert"}) =>
        /\ Wrapped = DOMAIN extended_predictors_to_original_forward
        /\ \A p \in Stages : reverts[p] = 0

\* And a step changes the signature or forward of no stage but the one being
\* rewound, so a stage blamed earlier keeps its older feedback.
OnlyRewoundStageChanges ==
    [][ (Feedback /\ pc' \in {"loop", "call", "revert"}) =>
           \A p \in Stages :
              (forward'[p] # forward[p] \/ contract'[p] # contract[p]) =>
                  (pc = "loop" /\ pc' = "call" /\ p = backtrack_to) ]_vars

\* Nothing the policies write differs from what it was before the call.
Untouched ==
    /\ config = config0
    /\ contract = contract0
    /\ \A p \in Stages : OriginalForward(p)
    /\ settings_lm[Len(settings_lm)] = lm0

\* func's invocation 0 ended without DSPyAssertionError.
AttemptZeroCompleted ==
    last_end.attempt = 0 /\ last_end.e.type # "DSPyAssertionError"

\* C18: under each of the four policies func's invocation 0 runs with every
\* predictor's config, signature and forward and the settings lm as they were
\* before the call, and when it ends without DSPyAssertionError nothing is
\* ever mutated or reverted and the rollback dict stays empty.
C18_AttemptZeroUnmodified ==
    /\ (pc = "call" /\ i = 0) => Untouched
    /\ AttemptZeroCompleted =>
          /\ Untouched
          /\ extended_predictors_to_original_forward = EmptyDict
          /\ mutated = {}
          /\ perturbed = {}
          /\ \A p \in Stages : reverts[p] = 0

C18_Witness ==
    /\ Feedback /\ pc = "done" /\ max_backtracks = 2
    /\ AttemptZeroCompleted /\ returned = Result(0, "r1")
    /\ contract["stageA"] = OwnFeedbackContract

\* C19: under assert_update_transform and assert_latest_transform the
\* temperature of a perturbed attempt grows strictly with the attempt, so no
\* two perturbed attempts of a call run with the same temperature, and the
\* perturbed attempt that is running runs with the temperature recorded for it.
C19_TemperaturesStrictlyIncrease ==
    (Update \/ Latest) =>
        /\ \A a, b \in perturbed : a[1] < b[1] => a[2] < b[2]
        /\ \A a \in perturbed :
              (pc = "call" /\ a[1] = i) =>
                 IF Update THEN settings_lm[Len(settings_lm)] = a[2]
                 ELSE <<"temperature", a[2]>> \in config[backtrack_to]

C19_Witness ==
    /\ Latest /\ pc = "call" /\ i = 2
    /\ perturbed = {<<1, LatestTemperature(1)>>, <<2, LatestTemperature(2)>>}
    /\ backtrack_to = "stageB"

\* The same case under assert_update_transform.
UpdateTwicePerturbed ==
    Update /\ pc = "call" /\ Cardinality(perturbed) = 2

====
